---- MODULE Spec2Model ----
(***************************************************************************)
(* Model of the IntelliFIM file-integrity-monitoring core                  *)
(* (IntelliFIM/fim/core/FIM.py, fim_utils.py, fim/utils/backup.py,         *)
(* fim/utils/thread_pool.py, fim/models.py).                               *)
(*                                                                         *)
(* Paths are sequences of one-character strings, so that str.startswith,   *)
(* os.path.dirname, os.path.basename and os.path.relpath are computed on   *)
(* the characters as the code computes them.  Times are in units of 0.5 s. *)
(***************************************************************************)
EXTENDS Integers, Sequences, FiniteSets, TLC

VARIABLES
    now,                 \* time.time(), in half seconds
    fs,                  \* file system: file path -> content (0 = absent)
    inbox,               \* notifications queued in the observer, in order
    recent_events,       \* EventDeduplicator.recent_events
    hash_cache,          \* FIMEventHandler.hash_cache
    last_backup_time,    \* FIMEventHandler._last_backup_time
    pool,                \* ThreadPoolExecutor work queue (submitted, not yet finished)
    dirs,                \* Directory table: set of paths
    entries,             \* FileMetadata table: set of rows
    backups,             \* results of the create_backup runs, oldest first
    nev,                 \* number of file-system operations so far
    last,                \* what the last step did (observation only)
    dispatched,          \* the backups dispatched so far (observation only)
    awaiting,            \* deleted baseline files no backup has run for yet
                         \* (observation only)
    sup,                 \* MonitorChanges fields
    observers,           \* watchdog Observer objects created so far
    callers,             \* threads inside monitor_changes / stop_monitoring
    calls,               \* threads inside EventDeduplicator.should_process
    returned,            \* the should_process calls that returned (observation only)
    backup_store,        \* the backup root: backup directory -> its files
    records,             \* BackupRecord table, by id
    restore_target,      \* the files of the directory restores are sent to
    restorers,           \* threads inside Backup.restore_backup
    futures,             \* the Futures of thread_pool.submit, in submission order
    notifier,            \* the observer's notification thread inside a callback
    journal              \* the events the callbacks accepted, in order
                         \* (observation only)

vars == <<now, fs, inbox, recent_events, hash_cache, last_backup_time, pool,
          dirs, entries, backups, nev, last, dispatched, awaiting,
          sup, observers, callers, calls, returned,
          backup_store, records, restore_target, restorers,
          futures, notifier, journal>>

eventVars == <<now, fs, inbox, recent_events, hash_cache, last_backup_time,
               pool, dirs, entries, backups, nev>>

lifeVars == <<sup, observers, callers>>

dedupVars == <<calls, returned>>

backupVars == <<backup_store, records, restore_target, restorers>>

poolVars == <<futures, notifier, journal>>

----------------------------------------------------------------------------
(* Bounds of the model *)

MaxTime == 10
MaxEvents == 2
MaxInbox == 1
MaxPending == 2
MaxCalls == 3
MaxDedupTime == 4
MaxObservers == 2

----------------------------------------------------------------------------
(* Program constants, in half seconds *)

window_seconds == 1      \* EventDeduplicator(window_seconds=0.5)
cache_timeout == 10      \* self.cache_timeout = 5.0
backup_cooldown == 10    \* if current_time - last_time < 5.0
max_workers == 2         \* min(max(2, cpu_count - 1), 4) on a host with up to 3 CPUs
hash_timeout == 20       \* future.result(timeout=10.0)

----------------------------------------------------------------------------
(* Paths and strings *)

Sep == "/"

RootD == <<"/", "d">>
RootE == <<"/", "e">>        \* an empty directory
RootM == <<"/", "m">>        \* a directory that is not on disk
FileA == <<"/", "d", "/", "a">>
FileSA == <<"/", "d", "/", "s", "/", "a">>
DirS == <<"/", "d", "/", "s">>   \* the subdirectory of RootD, always on disk

\* a directory beside RootD whose name begins with RootD's, and a file in it
RootDD == <<"/", "d", "d">>
FileDA == <<"/", "d", "d", "/", "a">>

Files == {FileA, FileSA}
Folders == {DirS}

\* the files of every directory on disk
AllFiles == Files \cup {FileDA}

\* the directories on disk
DirsOnDisk == {RootD, RootE, DirS, RootDD}

\* os.path.exists(directory)
exists(directory) == directory \in DirsOnDisk
Contents == {1, 2}

None == "None"
NoDir == << >>

\* str.startswith
startswith(s, prefix) ==
    /\ Len(prefix) <= Len(s)
    /\ SubSeq(s, 1, Len(prefix)) = prefix

\* index of the last "/" of a path (0 when there is none)
LastSep(p) ==
    LET idx == {i \in 1..Len(p) : p[i] = Sep}
    IN IF idx = {} THEN 0 ELSE CHOOSE i \in idx : \A j \in idx : j <= i

\* os.path.dirname
dirname(p) ==
    LET i == LastSep(p)
    IN IF i = 0 THEN << >>
       ELSE IF i = 1 THEN <<Sep>>
       ELSE SubSeq(p, 1, i - 1)

\* os.path.basename
basename(p) == SubSeq(p, LastSep(p) + 1, Len(p))

\* os.path.relpath(p, base) for a path p inside the directory base
relpath(p, base) == SubSeq(p, Len(base) + 2, Len(p))

\* FIMMonitor.calculate_hash: the SHA-256 digest of the content, None for a
\* missing file.  Different contents have different digests.
calculate_hash(content) ==
    CASE content = 0 -> None
      [] content = 1 -> "sha256_1"
      [] content = 2 -> "sha256_2"

----------------------------------------------------------------------------
(* Python dicts as functions with a finite domain *)

EmptyDict == << >>

DictPut(d, k, v) == [x \in (DOMAIN d) \cup {k} |-> IF x = k THEN v ELSE d[x]]

DictDrop(d, ks) == [x \in (DOMAIN d) \ ks |-> d[x]]

----------------------------------------------------------------------------
(* The Baseline Store: Directory and FileMetadata tables *)

\* a FileMetadata row
Row(d, i, st, h, prev) ==
    [dir |-> d, item |-> i, status |-> st, hash |-> h, previous_hash |-> prev]

\* FileMetadata.full_path: os.path.join(directory.path, item_path)
full_path(r) == r.dir \o <<Sep>> \o r.item

\* the rows of table E that describe the file or directory at path p
EntriesFor(E, p) == {r \in E : full_path(r) = p}

\* FileMetadata.objects.filter(directory=d, item_path=i)
RowsOf(E, d, i) == {r \in E : r.dir = d /\ r.item = i}

\* Meta.unique_together = [['directory', 'item_path', 'status']]
unique_together(E) ==
    \A r1, r2 \in E :
        (r1.dir = r2.dir /\ r1.item = r2.item /\ r1.status = r2.status) => r1 = r2

\* FileMetadata.objects.create in the place of update_or_create: a row is
\* added whatever rows there are
update_or_create_insert(E, d, i, h, st) ==
    [raised |-> FALSE, entries |-> E \cup {Row(d, i, st, h, None)}]

\* FileMetadata.objects.update_or_create(directory=d, item_path=i, defaults={hash, status}):
\* get() raises MultipleObjectsReturned for several rows, updates the only row,
\* or creates one.  The result is [raised, entries].
update_or_create(E, d, i, h, st) ==
    LET rows == RowsOf(E, d, i)
    IN IF Cardinality(rows) > 1
         THEN [raised |-> TRUE, entries |-> E]
       ELSE IF Cardinality(rows) = 1
         THEN LET r == CHOOSE x \in rows : TRUE
              IN [raised |-> FALSE,
                  entries |-> (E \ {r}) \cup {[r EXCEPT !.hash = h, !.status = st]}]
       ELSE [raised |-> FALSE, entries |-> E \cup {Row(d, i, st, h, None)}]

----------------------------------------------------------------------------
(* FIMMonitor.track_directory: the baseline of a root, one row per folder   *)
(* and per file on disk, keyed by the root's Directory and the path         *)
(* relative to the root.                                                    *)

FilesUnder(root) == {f \in AllFiles : startswith(f, root \o <<Sep>>)}

\* _process_file_entry for every file of the walk
RECURSIVE track_files(_, _, _, _)
track_files(E, disk, root, todo) ==
    IF todo = {} THEN E
    ELSE LET f == CHOOSE x \in todo : TRUE
             res == update_or_create(E, root, relpath(f, root),
                                     calculate_hash(disk[f]), "current")
         IN track_files(res.entries, disk, root, todo \ {f})

FoldersUnder(root) == {d \in Folders : startswith(d, root \o <<Sep>>)}

\* FIMMonitor.calculate_folder_hash: a digest of the folder's name and of the
\* names and digests of the files in it
calculate_folder_hash(disk, folder) ==
    LET inside == {f \in AllFiles : dirname(f) = folder /\ disk[f] # 0}
    IN IF inside = {} THEN "sha256_dir"
       ELSE IF \A f \in inside : disk[f] = 1 THEN "sha256_dir_1"
       ELSE "sha256_dir_2"

\* _process_directory_entry for every folder of the walk
RECURSIVE track_folders(_, _, _, _)
track_folders(E, disk, root, todo) ==
    IF todo = {} THEN E
    ELSE LET d == CHOOSE x \in todo : TRUE
             res == update_or_create(E, root, relpath(d, root),
                                     calculate_folder_hash(disk, d), "current")
         IN track_folders(res.entries, disk, root, todo \ {d})

track_directory(E, disk, root) ==
    track_files(track_folders(E, disk, root, FoldersUnder(root)), disk, root,
                {f \in FilesUnder(root) : disk[f] # 0})

----------------------------------------------------------------------------
(* EventDeduplicator *)

\* event_key = f"{event_type}_{file_path}"
event_key(event_type, file_path) == <<event_type, "_">> \o file_path

\* the entries that should_process purges: current_time - event_time > window_seconds
Expired(re, current_time) ==
    {k \in DOMAIN re : current_time - re[k] > window_seconds}

\* should_process: [result, recent_events]
should_process(re, event_type, file_path, current_time) ==
    LET key == event_key(event_type, file_path)
        kept == DictDrop(re, Expired(re, current_time))
    IN IF key \in DOMAIN kept
         THEN [result |-> FALSE, recent_events |-> kept]
         ELSE [result |-> TRUE, recent_events |-> DictPut(kept, key, current_time)]

----------------------------------------------------------------------------
(* FIMEventHandler helpers *)

\* _is_valid_event: is_active is never cleared; some monitored directory is a
\* string prefix of the event path
is_valid_event(current_directories, event_path) ==
    \E k \in 1..Len(current_directories) :
        startswith(event_path, current_directories[k])

\* the monitored_dir the backup loop of on_created / on_modified picks: the
\* first directory of current_directories that is a prefix of the path
monitored_dir_of(current_directories, path) ==
    LET idx == {k \in 1..Len(current_directories) :
                    startswith(path, current_directories[k])}
    IN IF idx = {} THEN NoDir
       ELSE current_directories[CHOOSE k \in idx : \A j \in idx : k <= j]

\* _get_cached_hash
get_cached_hash(cache, path, current_time) ==
    IF path \in DOMAIN cache /\ current_time - cache[path].time < cache_timeout
      THEN cache[path].hash
      ELSE None

\* _should_backup without the cooldown test
should_backup_nolimit(lbt, path, current_time) ==
    [result |-> TRUE,
     last_backup_time |-> DictPut(lbt, <<"backup", "_">> \o path, current_time)]

\* _should_backup with <= 5.0 in place of < 5.0
should_backup_late(lbt, path, current_time) ==
    LET backup_key == <<"backup", "_">> \o path
    IN IF backup_key \in DOMAIN lbt /\ current_time - lbt[backup_key] <= backup_cooldown
         THEN [result |-> FALSE, last_backup_time |-> lbt]
         ELSE [result |-> TRUE,
               last_backup_time |-> DictPut(lbt, backup_key, current_time)]

\* _should_backup: [result, last_backup_time]
should_backup(lbt, path, current_time) ==
    LET backup_key == <<"backup", "_">> \o path
    IN IF backup_key \in DOMAIN lbt /\ current_time - lbt[backup_key] < backup_cooldown
         THEN [result |-> FALSE, last_backup_time |-> lbt]
         ELSE [result |-> TRUE,
               last_backup_time |-> DictPut(lbt, backup_key, current_time)]

----------------------------------------------------------------------------
(* Persistence tasks of the change processor (run on pool workers).         *)
(* Each returns [dirs, entries, outcome].                                   *)

\* _process_addition
process_addition(D, E, path, current_hash) ==
    LET dir_path == dirname(path)
        D1 == D \cup {dir_path}                  \* Directory.objects.get_or_create
        item == basename(path)
    IN IF \E r \in RowsOf(E, dir_path, item) : r.status = "added"
         \* FileMetadata.objects.create violates unique_together: IntegrityError
         THEN [dirs |-> D1, entries |-> E, outcome |-> "error"]
         ELSE [dirs |-> D1,
               entries |-> E \cup {Row(dir_path, item, "added", current_hash, None)},
               outcome |-> "addition"]

\* The local name `created` of _process_modification at the moment the
\* defaults dict of update_or_create is built: its only assignment is the
\* unpacking of update_or_create's result, which has not happened yet.
created_in_defaults == "unbound"

\* _process_modification as it would run if `created` were bound to "a row
\* for (directory, item_path) exists": the row is rewritten whatever its digest
process_modification_bound(D, E, path, current_hash) ==
    LET dir_path == dirname(path)
        item == basename(path)
        st == IF RowsOf(E, dir_path, item) # {} THEN "modified" ELSE "current"
        res == update_or_create(E, dir_path, item, current_hash, st)
    IN [dirs |-> D \cup {dir_path}, entries |-> res.entries,
        outcome |-> IF res.raised THEN "error" ELSE "modification"]

\* _process_modification
process_modification(D, E, path, current_hash) ==
    LET dir_path == dirname(path)
        D1 == D \cup {dir_path}          \* filter(...).first() or get_or_create
        item == basename(path)
    IN IF created_in_defaults = "unbound"
         \* 'modified' if not created else 'current' raises UnboundLocalError,
         \* caught by the except of the task
         THEN [dirs |-> D1, entries |-> E, outcome |-> "error"]
         ELSE LET st == IF RowsOf(E, dir_path, item) # {} THEN "modified" ELSE "current"
                  res == update_or_create(E, dir_path, item, current_hash, st)
              IN [dirs |-> D1, entries |-> res.entries,
                  outcome |-> IF res.raised THEN "error" ELSE "modification"]

\* _process_deletion
process_deletion(D, E, path) ==
    LET dir_path == dirname(path)
        rows == RowsOf(E, dir_path, basename(path))
    IN IF dir_path \notin D
         THEN [dirs |-> D, entries |-> E, outcome |-> "none"]
       ELSE IF Cardinality(rows) > 1
         \* .update(status='deleted') makes two rows equal on
         \* (directory, item_path, status): IntegrityError, nothing is updated
         THEN [dirs |-> D, entries |-> E, outcome |-> "error"]
       ELSE [dirs |-> D,
             entries |-> (E \ rows) \cup {[r EXCEPT !.status = "deleted"] : r \in rows},
             outcome |-> "deletion"]

----------------------------------------------------------------------------
(* Backup.create_backup *)

Depth(p) == Cardinality({i \in 1..Len(p) : p[i] = Sep})

\* os.walk(source_dir), top-down: the files that exist, a directory's own
\* files before those of its subdirectories
RECURSIVE walk_order(_)
walk_order(todo) ==
    IF todo = {} THEN << >>
    ELSE LET f == CHOOSE x \in todo : \A y \in todo : Depth(x) <= Depth(y)
         IN <<f>> \o walk_order(todo \ {f})

walk(disk, source_dir) == walk_order({f \in FilesUnder(source_dir) : disk[f] # 0})

\* baseline_dict: item_path -> hash of the root's rows with status 'current'
baseline_dict(E, source_dir) ==
    LET cur == {r \in E : r.dir = source_dir /\ r.status = "current"}
    IN [i \in {r.item : r \in cur} |->
            (CHOOSE r \in cur : r.item = i).hash]

\* the file loop without its update_or_create: every file is copied, the
\* Baseline Store is not written
backup_files_readonly(acc, disk, source_dir, base, todo) ==
    [acc EXCEPT !.copied = {<<relpath(todo[n], source_dir), disk[todo[n]]>> :
                               n \in 1..Len(todo)}]

\* The file loop.  acc = [entries, new, changed, copied, failed]
RECURSIVE backup_files(_, _, _, _, _)
backup_files(acc, disk, source_dir, base, todo) ==
    IF todo = << >> \/ acc.failed THEN acc
    ELSE LET f == Head(todo)
             rel_path == relpath(f, source_dir)
             current_hash == calculate_hash(disk[f])
             known == rel_path \in DOMAIN base
         IN IF known /\ current_hash = base[rel_path]
              \* current_hash != baseline hash is False, so Python evaluates
              \* last_modified > baseline_info['last_modified']: a naive
              \* datetime.fromtimestamp against the aware value of the
              \* DateTimeField (USE_TZ = True) raises TypeError
              THEN [acc EXCEPT !.failed = TRUE]
              ELSE LET res == update_or_create(acc.entries, source_dir, rel_path,
                                               current_hash, "current")
                       acc1 == [acc EXCEPT
                                  !.new = IF known THEN @ ELSE @ \cup {rel_path},
                                  !.changed = IF known THEN @ \cup {rel_path} ELSE @,
                                  !.copied = @ \cup {<<rel_path, disk[f]>>},
                                  !.entries = res.entries,
                                  !.failed = res.raised]
                   IN backup_files(acc1, disk, source_dir, base, Tail(todo))

\* create_backup: [entries, record]; record is the outcome of the run
create_backup(E, disk, source_dir) ==
    LET base == baseline_dict(E, source_dir)
        acc == backup_files([entries |-> E, new |-> {}, changed |-> {},
                             copied |-> {}, failed |-> FALSE],
                            disk, source_dir, base, walk(disk, source_dir))
        existing_files == {relpath(f, source_dir) :
                              f \in {x \in FilesUnder(source_dir) : disk[x] # 0}}
        deleted_files == {i \in DOMAIN base : i \notin existing_files}
    IN [entries |-> acc.entries,
        record |-> [root |-> source_dir,
                    status |-> IF acc.failed THEN "failed" ELSE "success",
                    new_files |-> IF acc.failed THEN {} ELSE acc.new,
                    changed_files |-> IF acc.failed THEN {} ELSE acc.changed,
                    deleted_files |-> IF acc.failed THEN {} ELSE deleted_files,
                    copied |-> acc.copied]]

----------------------------------------------------------------------------
(* The backup root and the BackupRecord table *)

\* timezone.now().strftime("%Y%m%d_%H%M%S"): the time to the whole second
timestamp(t) == t \div 2

\* backup_dir = os.path.join(self.backup_root, dir_name, timestamp)
backup_dir(source_dir, t) ==
    [dir_name |-> basename(source_dir), timestamp |-> timestamp(t)]

\* the files of a directory tree as a function: relative path -> content
snapshot(disk, root) ==
    LET present == {f \in FilesUnder(root) : disk[f] # 0}
    IN [i \in {relpath(f, root) : f \in present} |->
            disk[CHOOSE f \in present : relpath(f, root) = i]]

\* shutil.copy2 of every <<relative path, content>> into a directory that
\* holds the files `into`: a file already there is overwritten
copy2(into, copied) ==
    [i \in DOMAIN into \cup {c[1] : c \in copied} |->
        IF \E c \in copied : c[1] = i
          THEN (CHOOSE c \in copied : c[1] = i)[2]
          ELSE into[i]]

\* BackupRecord.objects.create(original_path, backup_path, ...); at_backup is
\* the root's files when the backup ran (observation only)
BackupRecord(source_dir, dir, at_backup) ==
    [original_path |-> source_dir, backup_path |-> dir, is_active |-> TRUE,
     restored |-> FALSE, restore_count |-> 0, at_backup |-> at_backup]

\* What the run `run` of create_backup at time t leaves outside the Baseline
\* Store.  bk = [store, records].  os.makedirs(backup_dir, exist_ok=True)
\* takes the directory of an earlier run of the same second as it is; the
\* files copied before a failure stay; only a successful run has a record.
backup_effects(bk, run, disk, t) ==
    LET dir == backup_dir(run.root, t)
        into == IF dir \in DOMAIN bk.store THEN bk.store[dir] ELSE EmptyDict
    IN [store |-> DictPut(bk.store, dir, copy2(into, run.copied)),
        records |-> IF run.status = "success"
                      THEN Append(bk.records,
                                  BackupRecord(run.root, dir,
                                               snapshot(disk, run.root)))
                      ELSE bk.records]

----------------------------------------------------------------------------
(* What a step did, for the properties below *)

Did(op, path, hash, outcome, pre, root) ==
    [op |-> op, path |-> path, hash |-> hash, outcome |-> outcome,
     pre |-> pre, root |-> root]

NoStep == Did("none", << >>, None, "none", {}, NoDir)

----------------------------------------------------------------------------
(* The worker pool: ThreadPoolExecutor with max_workers threads.  Tasks     *)
(* start in submission order, so the tasks that may be running, and may     *)
(* take effect next, are the first max_workers unfinished ones.             *)

Task(fn, path, hash) == [fn |-> fn, path |-> path, hash |-> hash]

Running == 1..(IF Len(pool) < max_workers THEN Len(pool) ELSE max_workers)

\* a task that ends takes the tasks queued behind it with it
Remove_rest(q, i) == SubSeq(q, 1, i - 1)

Remove(q, i) == SubSeq(q, 1, i - 1) \o SubSeq(q, i + 1, Len(q))

----------------------------------------------------------------------------
(* The file system under the watched root, and its notifications *)

Notify(type, path) == inbox' = Append(inbox, [type |-> type, path |-> path])

\* a file is created or overwritten (also with the content it already has)
FsWrite(f, c) ==
    /\ nev < MaxEvents
    /\ Len(inbox) < MaxInbox
    /\ fs' = [fs EXCEPT ![f] = c]
    /\ Notify(IF fs[f] = 0 THEN "created" ELSE "modified", f)
    /\ nev' = nev + 1
    /\ last' = Did("write", f, None, "none", {}, NoDir)
    /\ awaiting' = awaiting \ {f}
    /\ UNCHANGED <<now, recent_events, hash_cache, last_backup_time, pool,
                   dirs, entries, backups, dispatched>>
    /\ UNCHANGED <<lifeVars, dedupVars, poolVars, backupVars>>

\* a file is removed
FsDelete(f) ==
    /\ nev < MaxEvents
    /\ Len(inbox) < MaxInbox
    /\ fs[f] # 0
    /\ fs' = [fs EXCEPT ![f] = 0]
    /\ Notify("deleted", f)
    /\ nev' = nev + 1
    /\ last' = Did("delete", f, None, "none", {}, NoDir)
    /\ UNCHANGED <<now, recent_events, hash_cache, last_backup_time, pool,
                   dirs, entries, backups, dispatched, awaiting>>
    /\ UNCHANGED <<lifeVars, dedupVars, poolVars, backupVars>>

\* time passes
TickSteps == {5, 10}

Tick(d) ==
    /\ now + d <= MaxTime
    /\ now' = now + d
    /\ last' = Did("tick", << >>, None, "none", {}, NoDir)
    /\ UNCHANGED <<fs, inbox, recent_events, hash_cache, last_backup_time, pool,
                   dirs, entries, backups, nev, dispatched, awaiting>>
    /\ UNCHANGED <<lifeVars, dedupVars, poolVars, backupVars>>

----------------------------------------------------------------------------
(* FIMEventHandler callbacks, run by the observer's notification thread     *)

\* future.result(timeout=10.0) of the hash task: the digest in time, or
\* concurrent.futures.TimeoutError after the 10 s
HashOutcomes == {"ok", "timeout"}

\* _calculate_hash_async: [hash, hash_cache, elapsed].  A digest in the cache
\* is returned without a hash task; a digest computed in time is put in the
\* cache; after a timeout "TIMEOUT_ERROR" is returned and the cache is left
\* as it is.
calculate_hash_async(cache, path, disk, current_time, outcome) ==
    LET cached_hash == get_cached_hash(cache, path, current_time)
    IN IF cached_hash # None
         THEN [hash |-> cached_hash, hash_cache |-> cache, elapsed |-> 0]
       ELSE IF outcome = "timeout"
         THEN [hash |-> "TIMEOUT_ERROR", hash_cache |-> cache,
               elapsed |-> hash_timeout]
       ELSE LET current_hash == calculate_hash(disk[path])
            IN [hash |-> current_hash,
                hash_cache |-> DictPut(cache, path,
                                       [time |-> current_time, hash |-> current_hash]),
                elapsed |-> 0]

\* the tail of on_created / on_modified: submit the persistence task, then
\* the rate-limited backup of the monitored directory
SubmitChange(fn, op, path, current_hash, current_time) ==
    LET sb == should_backup(last_backup_time, path, current_time)
        monitored_dir == monitored_dir_of(sup.current_directories, path)
        backup == sb.result /\ monitored_dir # NoDir
    IN /\ Len(pool) + 2 <= MaxPending
       /\ last_backup_time' = sb.last_backup_time
       /\ pool' = pool \o <<Task(fn, path, current_hash)>>
                       \o (IF backup THEN <<Task("backup", monitored_dir, None)>>
                           ELSE << >>)
       /\ dispatched' = IF backup
                          THEN Append(dispatched, [root |-> monitored_dir,
                                                   path |-> path,
                                                   time |-> current_time])
                          ELSE dispatched
       /\ last' = Did(op, path, current_hash, "processed", {},
                      IF backup THEN monitored_dir ELSE NoDir)

\* an event that _is_valid_event rejects, or should_process drops
Dropped(op, path, re) ==
    /\ recent_events' = re
    /\ last' = Did(op, path, None, "dropped", {}, NoDir)
    /\ UNCHANGED <<hash_cache, last_backup_time, pool, dispatched>>

on_created(outcome) ==
    /\ inbox # << >>
    /\ Head(inbox).type = "created"
    /\ now <= MaxTime
    /\ LET path == Head(inbox).path
           sp == should_process(recent_events, "created", path, now)
           ch == calculate_hash_async(hash_cache, path, fs, now, outcome)
       IN IF ~is_valid_event(sup.current_directories, path)
            THEN /\ Dropped("on_created", path, recent_events)
                 /\ UNCHANGED now
          ELSE IF ~sp.result
            THEN /\ Dropped("on_created", path, sp.recent_events)
                 /\ UNCHANGED now
          ELSE /\ recent_events' = sp.recent_events
               /\ hash_cache' = ch.hash_cache
               /\ now' = now + ch.elapsed
               /\ SubmitChange("addition", "on_created", path, ch.hash, now + ch.elapsed)
    /\ inbox' = Tail(inbox)
    /\ UNCHANGED <<fs, dirs, entries, backups, nev, awaiting>>
    /\ UNCHANGED <<lifeVars, dedupVars, poolVars, backupVars>>

on_modified(outcome) ==
    /\ inbox # << >>
    /\ Head(inbox).type = "modified"
    /\ now <= MaxTime
    /\ LET path == Head(inbox).path
           sp == should_process(recent_events, "modified", path, now)
           ch == calculate_hash_async(hash_cache, path, fs, now, outcome)
       IN IF ~is_valid_event(sup.current_directories, path)
            THEN /\ Dropped("on_modified", path, recent_events)
                 /\ UNCHANGED now
          ELSE IF ~sp.result
            THEN /\ Dropped("on_modified", path, sp.recent_events)
                 /\ UNCHANGED now
          ELSE /\ recent_events' = sp.recent_events
               /\ hash_cache' = ch.hash_cache
               /\ now' = now + ch.elapsed
               /\ SubmitChange("modification", "on_modified", path, ch.hash, now + ch.elapsed)
    /\ inbox' = Tail(inbox)
    /\ UNCHANGED <<fs, dirs, entries, backups, nev, awaiting>>
    /\ UNCHANGED <<lifeVars, dedupVars, poolVars, backupVars>>

on_deleted ==
    /\ inbox # << >>
    /\ Head(inbox).type = "deleted"
    /\ LET path == Head(inbox).path
           sp == should_process(recent_events, "deleted", path, now)
       IN IF ~is_valid_event(sup.current_directories, path)
            THEN Dropped("on_deleted", path, recent_events)
          ELSE IF ~sp.result
            THEN Dropped("on_deleted", path, sp.recent_events)
          ELSE /\ Len(pool) + 1 <= MaxPending
               /\ recent_events' = sp.recent_events
               /\ pool' = Append(pool, Task("deletion", path, None))
               /\ last' = Did("on_deleted", path, None, "processed", {}, NoDir)
               /\ UNCHANGED <<hash_cache, last_backup_time, dispatched>>
    /\ inbox' = Tail(inbox)
    /\ UNCHANGED <<now, fs, dirs, entries, backups, nev, awaiting>>
    /\ UNCHANGED <<lifeVars, dedupVars, poolVars, backupVars>>

----------------------------------------------------------------------------
(* Pool workers: one of the running tasks takes effect and finishes *)

RunAddition(i) ==
    /\ i \in Running
    /\ pool[i].fn = "addition"
    /\ LET t == pool[i]
           res == process_addition(dirs, entries, t.path, t.hash)
       IN /\ dirs' = res.dirs
          /\ entries' = res.entries
          /\ last' = Did("addition", t.path, t.hash, res.outcome,
                         EntriesFor(entries, t.path), NoDir)
    /\ pool' = Remove(pool, i)
    /\ UNCHANGED <<now, fs, inbox, recent_events, hash_cache, last_backup_time,
                   backups, nev, dispatched, awaiting>>
    /\ UNCHANGED <<lifeVars, dedupVars, poolVars, backupVars>>

RunModification(i) ==
    /\ i \in Running
    /\ pool[i].fn = "modification"
    /\ LET t == pool[i]
           res == process_modification(dirs, entries, t.path, t.hash)
       IN /\ dirs' = res.dirs
          /\ entries' = res.entries
          /\ last' = Did("modification", t.path, t.hash, res.outcome,
                         EntriesFor(entries, t.path), NoDir)
    /\ pool' = Remove(pool, i)
    /\ UNCHANGED <<now, fs, inbox, recent_events, hash_cache, last_backup_time,
                   backups, nev, dispatched, awaiting>>
    /\ UNCHANGED <<lifeVars, dedupVars, poolVars, backupVars>>

RunDeletion(i) ==
    /\ i \in Running
    /\ pool[i].fn = "deletion"
    /\ LET t == pool[i]
           res == process_deletion(dirs, entries, t.path)
       IN /\ dirs' = res.dirs
          /\ entries' = res.entries
          /\ last' = Did("deletion", t.path, None, res.outcome,
                         EntriesFor(entries, t.path), NoDir)
          /\ awaiting' = IF fs[t.path] = 0
                              /\ \E r \in EntriesFor(entries, t.path) : r.status = "current"
                            THEN awaiting \cup {t.path}
                            ELSE awaiting
    /\ pool' = Remove(pool, i)
    /\ UNCHANGED <<now, fs, inbox, recent_events, hash_cache, last_backup_time,
                   backups, nev, dispatched>>
    /\ UNCHANGED <<lifeVars, dedupVars, poolVars, backupVars>>

RunBackup(i) ==
    /\ i \in Running
    /\ pool[i].fn = "backup"
    /\ LET t == pool[i]
           res == create_backup(entries, fs, t.path)
           bk == backup_effects([store |-> backup_store, records |-> records],
                                res.record, fs, now)
       IN /\ dirs' = dirs \cup {t.path}          \* Directory.objects.get_or_create
          /\ entries' = res.entries
          /\ backups' = Append(backups, res.record)
          /\ backup_store' = bk.store
          /\ records' = bk.records
          /\ last' = Did("backup", t.path, None, res.record.status,
                         {f \in awaiting : startswith(f, t.path \o <<Sep>>)}, t.path)
          /\ awaiting' = {f \in awaiting : ~startswith(f, t.path \o <<Sep>>)}
    /\ pool' = Remove(pool, i)
    /\ UNCHANGED <<now, fs, inbox, recent_events, hash_cache, last_backup_time, nev,
                   dispatched>>
    /\ UNCHANGED <<lifeVars, dedupVars, poolVars, restore_target, restorers>>

----------------------------------------------------------------------------
(* A session that watches RootD: the state after monitor_changes([RootD])   *)
(* has tracked the baseline and started the observer.                       *)

Threads == {"t1", "t2", "t3"}

\* the threads that call restore_backup
Restorers == {"r1", "r2"}

\* no BackupRecord read yet
NoBackup ==
    [original_path |-> NoDir, backup_path |-> [dir_name |-> << >>, timestamp |-> 0],
     is_active |-> FALSE, restored |-> FALSE, restore_count |-> 0,
     at_backup |-> << >>]

IdleRestorer ==
    [pc |-> "idle", backup_id |-> 0, backup |-> NoBackup, failed_files |-> {}]

Idle == [pc |-> "idle"]

\* the notification thread between two callbacks
IdleNotifier == [pc |-> "idle", type |-> None, path |-> << >>, future |-> 0]

\* the threads that call monitor_changes and stop_monitoring, and the
\* observer_thread started for each Observer
Clients == {1, 2}

RunThread(o) == Cardinality(Clients) + o

LifeThreads == 1..RunThread(MaxObservers)

Caller(pc, cont, req) ==
    [pc |-> pc, cont |-> cont, req |-> req, excluded |-> {},
     iterated |-> << >>, submitted |-> << >>, futures |-> << >>,
     scheduled |-> FALSE, started |-> FALSE, outcome |-> "none"]

IdleCaller == Caller("idle", "none", << >>)

Unborn == Caller("unborn", "exit", << >>)

\* the supervisor after one successful monitor_changes(<<RootD>>)
WatchingSup ==
    [current_directories |-> <<RootD>>, observer |-> 1, stop_flag |-> FALSE]

InitEvents ==
    /\ now = 0
    /\ fs \in [Files -> {0, 1}]
    /\ inbox = << >>
    /\ recent_events = EmptyDict
    /\ hash_cache = EmptyDict
    /\ last_backup_time = EmptyDict
    /\ pool = << >>
    /\ dirs = {RootD}
    /\ entries = track_directory({}, fs, RootD)
    /\ backups = << >>
    /\ nev = 0
    /\ last = NoStep
    /\ dispatched = << >>
    /\ awaiting = {}
    /\ sup = WatchingSup
    /\ observers = <<[state |-> "alive", watches |-> {RootD}]>>
    /\ callers = [t \in LifeThreads |->
                    IF t = RunThread(1) THEN Caller("looping", "exit", << >>)
                    ELSE IF t \in Clients THEN IdleCaller
                    ELSE Unborn]
    /\ calls = [t \in Threads |-> Idle]
    /\ returned = << >>
    /\ backup_store = EmptyDict
    /\ records = << >>
    /\ restore_target = EmptyDict
    /\ restorers = [r \in Restorers |-> IdleRestorer]
    /\ futures = << >>
    /\ notifier = IdleNotifier
    /\ journal = << >>

NextEvents ==
    \/ \E f \in Files, c \in Contents : FsWrite(f, c)
    \/ \E f \in Files : FsDelete(f)
    \/ \E d \in TickSteps : Tick(d)
    \/ \E outcome \in HashOutcomes : on_created(outcome)
    \/ \E outcome \in HashOutcomes : on_modified(outcome)
    \/ on_deleted
    \/ \E i \in 1..max_workers : RunAddition(i)
    \/ \E i \in 1..max_workers : RunModification(i)
    \/ \E i \in 1..max_workers : RunDeletion(i)
    \/ \E i \in 1..max_workers : RunBackup(i)

Spec == InitEvents /\ [][NextEvents]_vars

----------------------------------------------------------------------------
(* Properties of the change processor *)

Digests == {calculate_hash(c) : c \in Contents}

CurrentRows(rows) == {r \in rows : r.status = "current"}

RowsWithStatus(p, st) == {r \in EntriesFor(entries, p) : r.status = st}

\* C1: when the persistence task of a modify event with digest h2 has run for
\* a path whose current Entry had digest h1 # h2, the path has exactly one
\* Entry with status modified, and it has previousDigest h1 and digest h2.
C1_ModifiedRecorded ==
    (/\ last.op = "modification"
     /\ last.hash \in Digests
     /\ \E r \in CurrentRows(last.pre) : r.hash # last.hash)
    => /\ Cardinality(RowsWithStatus(last.path, "modified")) = 1
       /\ \A m \in RowsWithStatus(last.path, "modified") :
            /\ m.hash = last.hash
            /\ \E r \in CurrentRows(last.pre) : m.previous_hash = r.hash

\* C2: when the persistence task of a delete event has run for a path that
\* had a baseline (current) Entry, the path has exactly one Entry with status
\* deleted, whose digest is the baseline digest.
C2_DeletedRecorded ==
    (/\ last.op = "deletion"
     /\ CurrentRows(last.pre) # {})
    => /\ Cardinality(RowsWithStatus(last.path, "deleted")) = 1
       /\ \A x \in RowsWithStatus(last.path, "deleted") :
            \E r \in CurrentRows(last.pre) : x.hash = r.hash

\* C3: when the persistence task of a create or modify event has run for a
\* path that had no current Entry, the change was classified as added and
\* the path has exactly one Entry with status added.
C3_AddedRecorded ==
    (/\ last.op \in {"addition", "modification"}
     /\ CurrentRows(last.pre) = {})
    => /\ last.outcome = "addition"
       /\ Cardinality(RowsWithStatus(last.path, "added")) = 1

PendingBackups(root) == {i \in 1..Len(pool) : pool[i].fn = "backup" /\ pool[i].path = root}

FileEventProcessed ==
    /\ last.op \in {"on_created", "on_modified"}
    /\ last.outcome = "processed"

\* C6 as stated: two backups of the same root are never dispatched less than
\* the cooldown (5 s) apart.
C6_OneBackupPerRootPerCooldown ==
    \A i, j \in 1..Len(dispatched) :
        (i < j /\ dispatched[i].root = dispatched[j].root)
        => dispatched[j].time - dispatched[i].time >= backup_cooldown

\* C6 as amended: two backups dispatched by events on the same file path are
\* never less than the cooldown (5 s) apart.
C6_OneBackupPerPathPerCooldown ==
    \A i, j \in 1..Len(dispatched) :
        (i < j /\ dispatched[i].path = dispatched[j].path)
        => dispatched[j].time - dispatched[i].time >= backup_cooldown

\* events on one path have dispatched two backups
C6_Witness ==
    \E i, j \in 1..Len(dispatched) :
        i < j /\ dispatched[i].path = dispatched[j].path

EarlierDispatches(path) ==
    {i \in 1..Len(dispatched) :
        /\ dispatched[i].path = path
        /\ now - dispatched[i].time < backup_cooldown
        /\ ~(i = Len(dispatched) /\ last.root # NoDir)}

C8_DeletedReported ==
    (last.op = "backup" /\ last.outcome = "success")
    => \A f \in last.pre :
          relpath(f, last.root) \in backups[Len(backups)].deleted_files

----------------------------------------------------------------------------
(* EventDeduplicator.should_process called from several threads             *)

EventTypes == {"created", "modified"}

\* current_time = time.time(); event_key = ...   (before the lock is taken)
should_process_enter(t, event_type, file_path) ==
    /\ calls[t] = Idle
    /\ Len(returned) + Cardinality({u \in Threads : calls[u] # Idle}) < MaxCalls
    /\ calls' = [calls EXCEPT ![t] = [pc |-> "sampled", event_type |-> event_type,
                                      file_path |-> file_path, current_time |-> now]]
    /\ UNCHANGED <<now, recent_events, returned>>

\* with self.lock: purge, test, record, return
should_process_locked(t) ==
    /\ calls[t] # Idle
    /\ LET c == calls[t]
           res == should_process(recent_events, c.event_type, c.file_path,
                                 c.current_time)
       IN /\ recent_events' = res.recent_events
          /\ returned' = Append(returned,
                 [key |-> event_key(c.event_type, c.file_path),
                  result |-> res.result,
                  current_time |-> c.current_time,
                  time |-> now])
    /\ calls' = [calls EXCEPT ![t] = Idle]
    /\ UNCHANGED now

\* time passes while threads are in or between calls
DedupTick ==
    /\ now < MaxDedupTime
    /\ now' = now + 1
    /\ UNCHANGED <<recent_events, calls, returned>>

DedupFrame ==
    UNCHANGED <<fs, inbox, hash_cache, last_backup_time, pool, dirs, entries,
                backups, nev, last, dispatched, awaiting, lifeVars, backupVars,
                poolVars>>

NextDedup ==
    \/ \E t \in Threads, ty \in EventTypes :
          should_process_enter(t, ty, FileA) /\ DedupFrame
    \/ \E t \in Threads : should_process_locked(t) /\ DedupFrame
    \/ DedupTick /\ DedupFrame

InitDedup ==
    /\ InitEvents
    /\ fs = [f \in Files |-> 1]

SpecDedup == InitDedup /\ [][NextDedup]_vars

Apart(a, b) == IF a < b THEN b - a ELSE a - b

\* an earlier call with the key of call j returned true within a window of
\* call j, both by the clock values the two calls read and by the times at
\* which they returned
TrueWithinWindow(j) ==
    \E i \in 1..(j - 1) :
        /\ returned[i].key = returned[j].key
        /\ returned[i].result
        /\ returned[j].time - returned[i].time <= window_seconds
        /\ Apart(returned[j].current_time, returned[i].current_time) <= window_seconds

\* C5: whatever the interleaving of the callers, a call of should_process
\* that returns true is not preceded, within the window, by a call with the
\* same (event type, path) that returned true: at most one call per key and
\* window returns true.
C5_OneTruePerWindow ==
    \A j \in 1..Len(returned) : returned[j].result => ~TrueWithinWindow(j)

\* a call returns true exactly when no earlier call with its key returned
\* true within the window, as long as every call takes the lock at the time
\* it read the clock
SequentialCallsDeduplicated ==
    (\A i \in 1..Len(returned) : returned[i].current_time = returned[i].time)
    => \A j \in 1..Len(returned) : returned[j].result <=> ~TrueWithinWindow(j)

----------------------------------------------------------------------------
(* MonitorChanges: monitor_changes and stop_monitoring, statement by        *)
(* statement, for threads that share one supervisor.  A stopped observer    *)
(* stays alive until the callback it is running returns, and                *)
(* observer.join(timeout=5) returns when it has ended or after the timeout; *)
(* the join of observer_thread and the logging change no field.             *)

Requests == {<<RootD>>, <<RootE, RootM, RootD>>}

Range(q) == {q[i] : i \in 1..Len(q)}

\* the supervisor after __init__
IdleSup ==
    [current_directories |-> << >>, observer |-> 0, stop_flag |-> FALSE]

Alive == {o \in 1..Len(observers) : observers[o].state = "alive"}

\* Observer.is_alive(): started, and its thread has not ended
is_alive(o) == observers[o].state \in {"alive", "stopping"}

\* what a thread does when its stop_monitoring has returned
AfterStop(c) ==
    CASE c.cont = "reset" -> [c EXCEPT !.pc = "reset"]
      [] c.cont = "raise" -> [c EXCEPT !.pc = "idle", !.outcome = "raised"]
      [] c.cont = "return" -> [c EXCEPT !.pc = "idle", !.outcome = "stopped"]
      [] OTHER -> [c EXCEPT !.pc = "exited"]

\* except Exception as e: log; self.stop_monitoring(); raise
Fail(c) == [c EXCEPT !.pc = "stop_flag", !.cont = "raise"]

\* the clients inside monitor_changes that have not reached Observer() yet
PendingCreate ==
    {u \in Clients :
        /\ callers[u].cont = "reset"
        /\ callers[u].pc \in {"stop_flag", "stop_observer", "stop_clear",
                              "reset", "create"}}

\* the loop "if not os.path.exists(directory): raise FileNotFoundError" that
\* never raises
FirstMissing_none(ds) == 0

\* the position of the first directory of the list that is not on disk, 0 if
\* all are
FirstMissing(ds) ==
    IF \A i \in 1..Len(ds) : exists(ds[i]) THEN 0
    ELSE CHOOSE i \in 1..Len(ds) :
           /\ ~exists(ds[i])
           /\ \A j \in 1..(i - 1) : exists(ds[j])

\* _initialize_directory_baseline for each submitted directory:
\* track_directory, then create_backup
RECURSIVE initialize_directory_baseline(_, _, _, _)
initialize_directory_baseline(E, B, disk, ds) ==
    IF ds = << >> THEN [entries |-> E, backups |-> B]
    ELSE LET b == create_backup(track_directory(E, disk, Head(ds)), disk, Head(ds))
         IN initialize_directory_baseline(b.entries, Append(B, b.record), disk,
                                          Tail(ds))

\* what the initial backups of the runs B[n + 1], B[n + 2], ... leave in the
\* backup root and the BackupRecord table
RECURSIVE initial_backups(_, _, _, _, _)
initial_backups(bk, B, n, disk, t) ==
    IF n >= Len(B) THEN bk
    ELSE initial_backups(backup_effects(bk, B[n + 1], disk, t), B, n + 1, disk, t)

LifeFrame ==
    UNCHANGED <<now, fs, inbox, recent_events, hash_cache, last_backup_time,
                pool, nev, last, dispatched, awaiting, dedupVars, poolVars,
                restore_target, restorers>>

\* a client thread calls
\* monitor_changes(auth_username, directories, excluded_files)
monitor_changes(t, directories, excluded_files) ==
    /\ callers[t].pc = "idle"
    /\ Len(observers) + Cardinality(PendingCreate) < MaxObservers
    /\ callers' = [callers EXCEPT ![t] =
                      [Caller("stop_flag", "reset", directories)
                          EXCEPT !.excluded = excluded_files]]
    /\ UNCHANGED <<sup, observers, dirs, entries, backups, backup_store, records>>

\* a client thread calls stop_monitoring()
stop_monitoring(t) ==
    /\ callers[t].pc = "idle"
    /\ callers' = [callers EXCEPT ![t] = Caller("stop_flag", "return", << >>)]
    /\ UNCHANGED <<sup, observers, dirs, entries, backups, backup_store, records>>

\* self._stop_flag.set()
stop_set_flag(t) ==
    /\ callers[t].pc = "stop_flag"
    /\ sup' = [sup EXCEPT !.stop_flag = TRUE]
    /\ callers' = [callers EXCEPT ![t].pc = "stop_observer"]
    /\ UNCHANGED <<observers, dirs, entries, backups, backup_store, records>>

\* if self.observer: if self.observer.is_alive(): stop(); join(timeout=5)
stop_observer(t) ==
    /\ callers[t].pc = "stop_observer"
    /\ IF sup.observer = 0
         THEN /\ callers' = [callers EXCEPT ![t] = AfterStop(callers[t])]
              /\ UNCHANGED observers
         ELSE /\ observers' = [observers EXCEPT ![sup.observer].state =
                                   IF @ = "alive" THEN "stopping" ELSE @]
              /\ callers' = [callers EXCEPT ![t].pc = "stop_clear"]
    /\ UNCHANGED <<sup, dirs, entries, backups, backup_store, records>>

\* a stopped observer's thread ends
observer_exit(o) ==
    /\ observers[o].state = "stopping"
    /\ observers' = [observers EXCEPT ![o].state = "stopped"]
    /\ UNCHANGED <<sup, callers, dirs, entries, backups, backup_store, records>>

\* finally: self.observer = None
stop_clear(t) ==
    /\ callers[t].pc = "stop_clear"
    /\ sup' = [sup EXCEPT !.observer = 0]
    /\ callers' = [callers EXCEPT ![t] = AfterStop(callers[t])]
    /\ UNCHANGED <<observers, dirs, entries, backups, backup_store, records>>


\* self.reset_state(); self.current_directories = directories
reset_state(t) ==
    /\ callers[t].pc = "reset"
    /\ sup' = [sup EXCEPT !.current_directories = callers[t].req,
                          !.stop_flag = FALSE]
    /\ callers' = [callers EXCEPT ![t].pc = "create"]
    /\ UNCHANGED <<observers, dirs, entries, backups, backup_store, records>>

\* self.observer = Observer()
create_observer(t) ==
    /\ callers[t].pc = "create"
    /\ observers' = Append(observers, [state |-> "new", watches |-> {}])
    /\ sup' = [sup EXCEPT !.observer = Len(observers) + 1]
    /\ callers' = [callers EXCEPT ![t].pc = "baselines"]
    /\ UNCHANGED <<dirs, entries, backups, backup_store, records>>

\* for directory in self.current_directories: raise FileNotFoundError if it
\* is not on disk, else submit its baseline; then wait for the baselines
initialize_baselines(t) ==
    /\ callers[t].pc = "baselines"
    /\ LET ds == sup.current_directories
           m == FirstMissing(ds)
           sub == IF m = 0 THEN ds ELSE SubSeq(ds, 1, m - 1)
           res == initialize_directory_baseline(entries, backups, fs, sub)
           c == [callers[t] EXCEPT !.iterated = ds, !.submitted = sub]
           bk == initial_backups([store |-> backup_store, records |-> records],
                                 res.backups, Len(backups), fs, now)
       IN /\ entries' = res.entries
          /\ backups' = res.backups
          /\ backup_store' = bk.store
          /\ records' = bk.records
          /\ dirs' = dirs \cup Range(sub)
          /\ callers' = [callers EXCEPT ![t] =
                            IF m = 0 THEN [c EXCEPT !.pc = "schedule"]
                            ELSE Fail(c)]
    /\ UNCHANGED <<sup, observers>>

\* the scheduling loop without its test of excluded_files
subscribed_all(directories, excluded_files) == Range(directories)

\* the directories the scheduling loop of monitor_changes subscribes:
\* for directory in self.current_directories:
\*     if directory in excluded_files: continue
\*     self.observer.schedule(event_handler, directory, recursive=True)
subscribed(directories, excluded_files) == Range(directories) \ excluded_files

\* the scheduling loop, run after the waits for the baselines
schedule_all(t) ==
    /\ callers[t].pc = "schedule"
    /\ IF sup.observer = 0
         THEN /\ callers' = [callers EXCEPT ![t] = Fail(callers[t])]
              /\ UNCHANGED observers
         ELSE /\ observers' = [observers EXCEPT ![sup.observer].watches =
                                   @ \cup subscribed(sup.current_directories,
                                                     callers[t].excluded)]
              /\ callers' = [callers EXCEPT ![t].pc = "start",
                                            ![t].scheduled = TRUE]
    /\ UNCHANGED <<sup, dirs, entries, backups, backup_store, records>>

\* self.observer.start(); self.observer_thread = Thread(...); start()
start_observer(t) ==
    /\ callers[t].pc = "start"
    /\ LET o == sup.observer
           refused == IF o = 0 THEN TRUE
                      ELSE \/ observers[o].state # "new"
                           \/ \E w \in observers[o].watches : ~exists(w)
       IN IF refused
            THEN /\ callers' = [callers EXCEPT ![t] = Fail(callers[t])]
                 /\ UNCHANGED observers
            ELSE /\ observers' = [observers EXCEPT ![o].state = "alive"]
                 /\ callers' = [callers EXCEPT
                        ![t] = [@ EXCEPT !.pc = "idle", !.started = TRUE,
                                         !.outcome = "started"],
                        ![RunThread(o)] = Caller("looping", "exit", << >>)]
    /\ UNCHANGED <<sup, dirs, entries, backups, backup_store, records>>

\* _run_observer: the loop ends, finally: self._cleanup()
run_observer(r) ==
    /\ callers[r].pc = "looping"
    /\ IF sup.stop_flag \/ sup.observer = 0 THEN TRUE
       ELSE ~is_alive(sup.observer)
    /\ callers' = [callers EXCEPT ![r].pc = "stop_flag"]
    /\ UNCHANGED <<sup, observers, dirs, entries, backups, backup_store, records>>

InitLife ==
    /\ now = 0
    /\ fs = [f \in Files |-> 1]
    /\ inbox = << >>
    /\ recent_events = EmptyDict
    /\ hash_cache = EmptyDict
    /\ last_backup_time = EmptyDict
    /\ pool = << >>
    /\ dirs = {}
    /\ entries = {}
    /\ backups = << >>
    /\ nev = 0
    /\ last = NoStep
    /\ dispatched = << >>
    /\ awaiting = {}
    /\ sup = IdleSup
    /\ observers = << >>
    /\ callers = [t \in LifeThreads |-> IF t \in Clients THEN IdleCaller ELSE Unborn]
    /\ calls = [t \in Threads |-> Idle]
    /\ returned = << >>
    /\ backup_store = EmptyDict
    /\ records = << >>
    /\ restore_target = EmptyDict
    /\ restorers = [r \in Restorers |-> IdleRestorer]
    /\ futures = << >>
    /\ notifier = IdleNotifier
    /\ journal = << >>

NextLife ==
    \/ \E t \in Clients, ds \in Requests : monitor_changes(t, ds, {}) /\ LifeFrame
    \/ \E t \in Clients : stop_monitoring(t) /\ LifeFrame
    \/ \E t \in LifeThreads : stop_set_flag(t) /\ LifeFrame
    \/ \E t \in LifeThreads : stop_observer(t) /\ LifeFrame
    \/ \E t \in LifeThreads : stop_clear(t) /\ LifeFrame
    \/ \E t \in Clients : reset_state(t) /\ LifeFrame
    \/ \E t \in Clients : create_observer(t) /\ LifeFrame
    \/ \E t \in Clients : initialize_baselines(t) /\ LifeFrame
    \/ \E t \in Clients : schedule_all(t) /\ LifeFrame
    \/ \E t \in Clients : start_observer(t) /\ LifeFrame
    \/ \E r \in LifeThreads \ Clients : run_observer(r) /\ LifeFrame
    \/ \E o \in 1..Len(observers) : observer_exit(o) /\ LifeFrame

SpecLife == InitLife /\ [][NextLife]_vars

HasMissing(ds) == \E i \in 1..Len(ds) : ~exists(ds[i])

C10_AtMostOneObserverAlive == Cardinality(Alive) <= 1

\* thread t returns from stop_monitoring in this step
StopReturns(t) ==
    /\ callers[t].pc \in {"stop_observer", "stop_clear"}
    /\ callers'[t].pc \notin {"stop_observer", "stop_clear"}

\* no other client has called monitor_changes or stop_monitoring
OnlyClient(t) == \A u \in Clients \ {t} : callers[u] = IdleCaller

\* C11: when a stop_monitoring call of the only client returns, the observer
\* reference is released, the stop flag is set and no observer is left
\* running (one that was asked to stop and is still ending after the bounded
\* join is not counted); a stop that finds no observer reference changes no
\* observer.
C11_StopLeavesSupervisorStopped ==
    [][/\ \A t \in Clients :
            (StopReturns(t) /\ OnlyClient(t) /\ callers[t].cont = "return")
            => /\ sup'.observer = 0
               /\ sup'.stop_flag
               /\ \A o \in 1..Len(observers') : observers'[o].state # "alive"
       /\ \A t \in LifeThreads :
            (callers[t].pc = "stop_observer" /\ sup.observer = 0
               /\ callers'[t] # callers[t])
            => observers' = observers /\ sup' = sup]_vars

----------------------------------------------------------------------------
(* Backups and restores on request: create_backup_task and                  *)
(* restore_backup_task, the tracker, and the files of the roots changing    *)
(* while nothing is watched.  restore_backup reads the BackupRecord, copies *)
(* the files and then saves the record it read: the transaction of          *)
(* @transaction.atomic does not lock the row, so another restore_backup can *)
(* read the same row in between.                                            *)

MaxBackupTime == 2
MaxRuns == 1
MaxRestoreRuns == 2
MaxRestores == 1
MaxWrites == 1

BackupRoots == {RootD, DirS, RootM}

\* restore_path: None (the record's original_path) or a directory of its own
RestoreTarget == "target"

RestorePaths == {None, RestoreTarget}

BackupFrame ==
    UNCHANGED <<inbox, recent_events, hash_cache, last_backup_time, pool,
                dispatched, awaiting, lifeVars, dedupVars, poolVars>>

\* a file of a root is written or removed
offline_write(f, c) ==
    /\ nev < MaxWrites
    /\ fs[f] # c
    /\ fs' = [fs EXCEPT ![f] = c]
    /\ nev' = nev + 1
    /\ last' = Did("write", f, None, "none", {}, NoDir)
    /\ UNCHANGED <<now, dirs, entries, backups, backupVars>>

\* a second passes
backup_tick ==
    /\ now + 2 <= MaxBackupTime
    /\ now' = now + 2
    /\ last' = Did("tick", << >>, None, "none", {}, NoDir)
    /\ UNCHANGED <<fs, nev, dirs, entries, backups, backupVars>>

\* FIMMonitor.track_directory(root).  Nothing in it looks whether root is
\* on disk: get_or_create writes the Directory row, os.walk of a path that is
\* not there yields nothing and raises nothing, and the entries collected
\* (none) are returned.
track(root) ==
    /\ dirs' = dirs \cup {root}
    /\ entries' = track_directory(entries, fs, root)
    /\ last' = Did("track", root, None, "success", {}, root)
    /\ UNCHANGED <<now, fs, nev, backups, backupVars>>

\* Backup().create_backup(source_dir, username, 'manual')
manual_backup(source_dir) ==
    /\ IF ~exists(source_dir)
         THEN /\ last' = Did("backup", source_dir, None, "none", {}, source_dir)
              /\ UNCHANGED <<dirs, entries, backups, backup_store, records>>
         ELSE LET res == create_backup(entries, fs, source_dir)
                  bk == backup_effects([store |-> backup_store, records |-> records],
                                       res.record, fs, now)
              IN /\ dirs' = dirs \cup {source_dir}
                 /\ entries' = res.entries
                 /\ backups' = Append(backups, res.record)
                 /\ backup_store' = bk.store
                 /\ records' = bk.records
                 /\ last' = Did("backup", source_dir, None, res.record.status, {},
                                source_dir)
    /\ UNCHANGED <<now, fs, nev, restore_target, restorers>>

\* BackupRecord.objects.get(id=backup_id, is_active=True) finds a row
found(backup_id) ==
    /\ backup_id \in 1..Len(records)
    /\ records[backup_id].is_active

\* restore_backup up to the copy of the last file.  makedirs_ok: whether
\* os.makedirs(restore_path) succeeds; failing: the files whose copy raises
restore_copy(r, backup_id, restore_path, makedirs_ok, failing) ==
    /\ restorers[r].pc = "idle"
    /\ IF ~found(backup_id)
         THEN /\ last' = Did("restore", << >>, None, "not_found", {}, NoDir)
              /\ UNCHANGED <<fs, restore_target, restorers>>
       ELSE IF ~makedirs_ok
         THEN /\ last' = Did("restore", << >>, None, "failed", {}, NoDir)
              /\ UNCHANGED <<fs, restore_target, restorers>>
       ELSE LET backup == records[backup_id]
                files == backup_store[backup.backup_path]
                restored_files == DOMAIN files \ failing
                copied == {<<i, files[i]>> : i \in restored_files}
            IN /\ backup.restore_count < MaxRestores
               /\ failing \subseteq DOMAIN files
               /\ IF restore_path = None
                    THEN /\ fs' = [f \in Files |->
                                     IF /\ startswith(f, backup.original_path \o <<Sep>>)
                                        /\ relpath(f, backup.original_path)
                                              \in restored_files
                                       THEN files[relpath(f, backup.original_path)]
                                       ELSE fs[f]]
                         /\ UNCHANGED restore_target
                    ELSE /\ restore_target' = copy2(restore_target, copied)
                         /\ UNCHANGED fs
               /\ restorers' = [restorers EXCEPT ![r] =
                                   [pc |-> "copied", backup_id |-> backup_id,
                                    backup |-> backup, failed_files |-> failing]]
               /\ last' = Did("restore", backup.original_path, None, "copied", {},
                              IF restore_path = None THEN backup.original_path
                              ELSE NoDir)
    /\ UNCHANGED <<now, nev, dirs, entries, backups, backup_store, records>>

\* backup.restored = True; backup.restore_count += 1; backup.save()
restore_save(r) ==
    /\ restorers[r].pc = "copied"
    /\ records' = [records EXCEPT ![restorers[r].backup_id] =
                      [restorers[r].backup EXCEPT
                          !.restored = TRUE,
                          !.restore_count = @ + 1]]
    /\ restorers' = [restorers EXCEPT ![r] = IdleRestorer]
    /\ last' = Did("restore", restorers[r].backup.original_path, None, "restored",
                   {}, NoDir)
    /\ UNCHANGED <<now, fs, nev, dirs, entries, backups, backup_store,
                   restore_target>>

\* an administrator clears BackupRecord.is_active
deactivate(backup_id) ==
    /\ found(backup_id)
    /\ records' = [records EXCEPT ![backup_id].is_active = FALSE]
    /\ last' = Did("deactivate", << >>, None, "none", {}, NoDir)
    /\ UNCHANGED <<now, fs, nev, dirs, entries, backups, backup_store,
                   restore_target, restorers>>

InitBackup ==
    /\ now = 0
    /\ fs \in [Files -> {0, 1}]
    /\ inbox = << >>
    /\ recent_events = EmptyDict
    /\ hash_cache = EmptyDict
    /\ last_backup_time = EmptyDict
    /\ pool = << >>
    /\ dirs = {}
    /\ entries = {}
    /\ backups = << >>
    /\ nev = 0
    /\ last = NoStep
    /\ dispatched = << >>
    /\ awaiting = {}
    /\ sup = IdleSup
    /\ observers = << >>
    /\ callers = [t \in LifeThreads |-> IF t \in Clients THEN IdleCaller ELSE Unborn]
    /\ calls = [t \in Threads |-> Idle]
    /\ returned = << >>
    /\ backup_store = EmptyDict
    /\ records = << >>
    /\ restore_target = EmptyDict
    /\ restorers = [r \in Restorers |-> IdleRestorer]
    /\ futures = << >>
    /\ notifier = IdleNotifier
    /\ journal = << >>

NextBackup ==
    \/ \E f \in Files, c \in {0} \cup Contents : offline_write(f, c) /\ BackupFrame
    \/ backup_tick /\ BackupFrame
    \/ \E root \in BackupRoots : track(root) /\ BackupFrame
    \/ /\ Len(backups) < MaxRuns
       /\ \E root \in BackupRoots : manual_backup(root) /\ BackupFrame

SpecBackup == InitBackup /\ [][NextBackup]_vars

\* the backups of RootD and the restores of their records
RestoreRoots == {RootD, RootM}

\* the files whose copy may fail in a restore
MayFail == {{}, {relpath(FileA, RootD)}}

NextRestore ==
    \/ \E f \in Files, c \in {0} \cup Contents : offline_write(f, c) /\ BackupFrame
    \/ backup_tick /\ BackupFrame
    \/ /\ Len(backups) < MaxRestoreRuns
       /\ \E root \in RestoreRoots : manual_backup(root) /\ BackupFrame
    \/ \E r \in Restorers, id \in 1..(MaxRestoreRuns + 1), rp \in RestorePaths,
          ok \in BOOLEAN, failing \in MayFail :
          restore_copy(r, id, rp, ok, failing) /\ BackupFrame
    \/ \E r \in Restorers : restore_save(r) /\ BackupFrame
    \/ \E id \in 1..MaxRestoreRuns : deactivate(id) /\ BackupFrame

SpecRestore == InitBackup /\ [][NextRestore]_vars

\* C12: restoring a backup's record to a directory, with no copy failing,
\* puts there every file the root held when the backup ran, with the
\* content it had then, whatever other backups ran before or after.
C12_RestoreReproducesBackup ==
    [][\A r \in Restorers :
          (/\ restorers[r].pc = "idle"
           /\ restorers'[r].pc = "copied"
           /\ restorers'[r].failed_files = {}
           /\ last'.root = NoDir)
          => LET at_backup == restorers'[r].backup.at_backup
             IN \A i \in DOMAIN at_backup :
                   /\ i \in DOMAIN restore_target'
                   /\ restore_target'[i] = at_backup[i]]_vars

\* C13: a backup run classifies every file it visits: new when the root's
\* baseline has no current row for it, changed when the digest differs,
\* otherwise unchanged, which is copied and reported neither as new nor as
\* changed; so a file that was not touched is no change of the next run.
C13_FilesClassified ==
    [][(last'.op = "backup" /\ Len(backups') > Len(backups))
          => LET run == backups'[Len(backups')]
                 base == baseline_dict(entries, run.root)
             IN \A f \in FilesUnder(run.root) :
                   fs[f] # 0
                   => LET rel_path == relpath(f, run.root)
                          known == rel_path \in DOMAIN base
                      IN /\ run.status = "success"
                         /\ <<rel_path, fs[f]>> \in run.copied
                         /\ rel_path \in run.new_files <=> ~known
                         /\ rel_path \in run.changed_files
                               <=> (known /\ base[rel_path] # calculate_hash(fs[f]))]_vars

\* C14: the deleted list of a backup run is exactly the root's current
\* baseline paths that are no longer on disk: a baseline path that is still
\* there, a file or a subdirectory, is not in it, and nothing in it was copied.
C14_DeletedAreTheAbsent ==
    [][(/\ last'.op = "backup"
        /\ Len(backups') > Len(backups)
        /\ backups'[Len(backups')].status = "success")
          => LET run == backups'[Len(backups')]
                 base == DOMAIN baseline_dict(entries, run.root)
                 on_disk == {relpath(f, run.root) :
                                f \in {x \in FilesUnder(run.root) : fs[x] # 0}}
                            \cup {relpath(d, run.root) : d \in FoldersUnder(run.root)}
             IN /\ run.deleted_files = base \ on_disk
                /\ \A c \in run.copied : c[1] \notin run.deleted_files]_vars

\* C15: a restore_backup call for an existing, active record leaves the
\* record with its restored flag set and its restore counter one higher than
\* it was; a file whose copy fails does not keep the other files from being
\* copied; a call for an unknown or inactive id changes no record and no file.
C15_RestoreCountsEachCall ==
    [][/\ \A r \in Restorers :
            (restorers[r].pc = "copied" /\ restorers'[r].pc = "idle")
            => LET id == restorers[r].backup_id
               IN /\ records'[id].restored
                  /\ records'[id].restore_count = records[id].restore_count + 1
       /\ \A r \in Restorers :
            (/\ restorers[r].pc = "idle"
             /\ restorers'[r].pc = "copied"
             /\ last'.root = NoDir)
            => LET files == backup_store[restorers'[r].backup.backup_path]
               IN \A i \in DOMAIN files \ restorers'[r].failed_files :
                     /\ i \in DOMAIN restore_target'
                     /\ restore_target'[i] = files[i]
       /\ (last'.op = "restore" /\ last'.outcome = "not_found")
            => /\ records' = records
               /\ fs' = fs
               /\ restore_target' = restore_target
               /\ backup_store' = backup_store]_vars

\* C16, as stated: a file or directory on disk has at most one Entry with
\* status current.
C16_OneCurrentPerFile ==
    \A p \in Files \cup Folders :
        Cardinality({r \in EntriesFor(entries, p) : r.status = "current"}) <= 1

\* C16: a Directory row and an item_path have at most one Entry with status
\* current, whatever tracker walks and backups have run.
C16_OneCurrentPerKey ==
    \A r1, r2 \in entries :
        (/\ r1.dir = r2.dir
         /\ r1.item = r2.item
         /\ r1.status = "current"
         /\ r2.status = "current")
        => r1 = r2

\* a root was tracked, one of its files was rewritten, and a backup of the
\* root has updated the file's current Entry
C16_Witness ==
    /\ last.op = "backup"
    /\ last.outcome = "success"
    /\ \E r \in entries :
          /\ r.dir = RootD
          /\ r.status = "current"
          /\ r.hash = "sha256_2"
    /\ \E r \in entries : r.dir = RootD /\ r.item = relpath(DirS, RootD)

\* C17: track_directory of a root that is not on disk fails: it reports an
\* error and leaves the Baseline Store as it was, in the place of returning
\* an empty baseline as a success.
C17_MissingRootFails ==
    [][(last'.op = "track" /\ ~exists(last'.root))
          => /\ last'.outcome = "error"
             /\ dirs' = dirs
             /\ entries' = entries]_vars

\* C18: a create or modify event that passes the filter and the
\* deduplicator submits exactly one persistence task, with the digest or,
\* after a hash timeout, with the sentinel, which is never put in the hash
\* cache; and the task records the change with that digest.
C18_EveryEventRecorded ==
    [][/\ (/\ inbox # << >>
           /\ inbox' = Tail(inbox)
           /\ last'.op \in {"on_created", "on_modified"}
           /\ last'.outcome = "processed")
          => LET fn == IF last'.op = "on_created" THEN "addition"
                       ELSE "modification"
                 new == SubSeq(pool', Len(pool) + 1, Len(pool'))
             IN /\ Cardinality({i \in 1..Len(new) : new[i].fn # "backup"}) = 1
                /\ \E i \in 1..Len(new) : new[i] = Task(fn, last'.path, last'.hash)
                /\ \A p \in DOMAIN hash_cache' :
                      hash_cache'[p].hash # "TIMEOUT_ERROR"
       /\ (/\ Len(pool') < Len(pool)
           /\ last'.op \in {"addition", "modification"})
          => /\ last'.outcome # "error"
             /\ \E r \in EntriesFor(entries', last'.path) : r.hash = last'.hash]_vars

\* a step in which the processing of an event failed: the hash timed out in
\* the callback, or a persistence or backup task ended in its except branch
HashFailed ==
    /\ inbox # << >>
    /\ inbox' = Tail(inbox)
    /\ last'.hash = "TIMEOUT_ERROR"

TaskFailed ==
    /\ Len(pool') < Len(pool)
    /\ last'.outcome \in {"error", "failed"}

BackupRan ==
    /\ last'.op = "backup"
    /\ Len(backups') > Len(backups)

----------------------------------------------------------------------------
(* The Hash Cache *)

\* on_created / on_modified has handed a digest to the persistence task
\* (the hash task did not time out)
DigestHanded ==
    /\ inbox # << >>
    /\ inbox' = Tail(inbox)
    /\ last'.op \in {"on_created", "on_modified"}
    /\ last'.outcome = "processed"
    /\ last'.hash # "TIMEOUT_ERROR"

\* C22: the Hash Cache only saves time: the digest handed to classification
\* for a processed create/modify event is the digest of the content the path
\* has when the event is processed, as it would be without the cache.
C22_CacheIsTransparent ==
    [][DigestHanded => last'.hash = calculate_hash(fs[last'.path])]_vars

----------------------------------------------------------------------------
(* Backup locations *)

\* C26: every backup run writes into a backup location of its own: no two
\* BackupRecords refer to the same backup location.
C26_BackupLocationsDistinct ==
    \A i, j \in DOMAIN records :
       i # j => records[i].backup_path # records[j].backup_path

----------------------------------------------------------------------------
(* The supervisor's list of active roots, and the sessions *)

\* no client is inside monitor_changes or stop_monitoring
CallsReturned == \A t \in Clients : callers[t].pc = "idle"

\* C28: whenever start or stop has returned, current_directories is
\* non-empty only if an observer is alive and watching the listed roots.
C28_ActiveRootsAreWatched ==
    (CallsReturned /\ sup.current_directories # << >>)
    => IF sup.observer = 0 THEN FALSE
       ELSE /\ observers[sup.observer].state = "alive"
            /\ Range(sup.current_directories) \subseteq observers[sup.observer].watches

\* the observer_thread of observer o takes a step of the stop_monitoring
\* called by its _cleanup
CleanupStep(o) ==
    /\ callers[RunThread(o)].pc \in {"stop_flag", "stop_observer", "stop_clear"}
    /\ callers'[RunThread(o)] # callers[RunThread(o)]

\* C29: the observer_thread of a previous session never stops or releases
\* the observer of a newer session (sessions started one after the other by
\* one client).
C29_CleanupActsOnOwnSession ==
    [][\A o \in 1..Len(observers) :
          (CleanupStep(o) /\ \E t \in Clients : OnlyClient(t))
          => /\ \A p \in (o + 1)..Len(observers) : observers'[p] = observers[p]
             /\ sup.observer > o => sup'.observer = sup.observer]_vars

----------------------------------------------------------------------------
(* The worker pool and its callers, future by future.  thread_pool.submit   *)
(* appends a Future to the executor's queue; an idle worker takes the       *)
(* oldest queued one; at most max_workers run at a time, and the running    *)
(* ones take effect in any order.  The start path waits for the baseline    *)
(* futures (30 s each), the notification thread for the hash future (10 s). *)

MaxPoolEvents == 2
MaxPoolTime == 60

baseline_timeout == 60   \* future.result(timeout=30.0)

\* a function run by a worker that submits a hash task to the pool and waits
\* for its result
submits_hash(fn) == IF fn = "baseline" THEN <<"hash">> ELSE << >>

\* the tasks a function run by a worker submits to the pool and waits for:
\* _initialize_directory_baseline, calculate_hash, calculate_folder_hash,
\* _process_addition, _process_modification, _process_deletion and
\* create_backup call no thread_pool.submit
submits(fn) == << >>

Future(fn, path, hash, parent, submitted_at) ==
    [fn |-> fn, path |-> path, hash |-> hash, state |-> "pending",
     result |-> None, parent |-> parent, at |-> submitted_at, waited |-> "no"]

Queued == {i \in 1..Len(futures) : futures[i].state = "pending"}

Busy == {i \in 1..Len(futures) : futures[i].state = "running"}

PoolFrame ==
    UNCHANGED <<pool, last, dispatched, awaiting, dedupVars, restore_target,
                restorers>>

\* an idle worker takes the oldest queued work item and calls its function
worker_start(i) ==
    /\ i \in Queued
    /\ \A j \in Queued : i <= j
    /\ Cardinality(Busy) < max_workers
    /\ futures' = [futures EXCEPT ![i].state = "running"]
                    \o [k \in 1..Len(submits(futures[i].fn)) |->
                          Future(submits(futures[i].fn)[k], futures[i].path, None,
                                 i, now)]
    /\ UNCHANGED <<now, fs, inbox, recent_events, hash_cache, last_backup_time,
                   dirs, entries, backups, nev, lifeVars, backup_store, records,
                   notifier, journal>>

\* what the function of a running task does to the stores, and its result
task_effect(f) ==
    LET same == [dirs |-> dirs, entries |-> entries, backups |-> backups,
                 store |-> backup_store, records |-> records, result |-> None]
    IN CASE f.fn = "hash" ->       \* calculate_hash, calculate_folder_hash
              [same EXCEPT !.result = IF f.path \in DOMAIN fs
                                        THEN calculate_hash(fs[f.path])
                                        ELSE calculate_folder_hash(fs, f.path)]
         [] f.fn = "addition" ->
              LET res == process_addition(dirs, entries, f.path, f.hash)
              IN [same EXCEPT !.dirs = res.dirs, !.entries = res.entries,
                              !.result = res.outcome]
         [] f.fn = "modification" ->
              LET res == process_modification(dirs, entries, f.path, f.hash)
              IN [same EXCEPT !.dirs = res.dirs, !.entries = res.entries,
                              !.result = res.outcome]
         [] f.fn = "deletion" ->
              LET res == process_deletion(dirs, entries, f.path)
              IN [same EXCEPT !.dirs = res.dirs, !.entries = res.entries,
                              !.result = res.outcome]
         [] f.fn = "backup" ->
              LET res == create_backup(entries, fs, f.path)
                  bk == backup_effects([store |-> backup_store, records |-> records],
                                       res.record, fs, now)
              IN [dirs |-> dirs \cup {f.path}, entries |-> res.entries,
                  backups |-> Append(backups, res.record),
                  store |-> bk.store, records |-> bk.records,
                  result |-> res.record.status]
         [] OTHER ->        \* "baseline": _initialize_directory_baseline
              LET res == initialize_directory_baseline(entries, backups, fs,
                                                       <<f.path>>)
                  bk == initial_backups([store |-> backup_store, records |-> records],
                                        res.backups, Len(backups), fs, now)
              IN [dirs |-> dirs \cup {f.path}, entries |-> res.entries,
                  backups |-> res.backups,
                  store |-> bk.store, records |-> bk.records,
                  result |-> None]

\* task i is running and waits for no task it submitted
Runnable(i) ==
    /\ i \in Busy
    /\ \A j \in 1..Len(futures) :
          futures[j].parent = i => futures[j].state = "done"

\* the function of a running task returns: its effect is on the stores and
\* its Future holds the result
run_task(i) ==
    /\ Runnable(i)
    /\ LET res == task_effect(futures[i])
       IN /\ dirs' = res.dirs
          /\ entries' = res.entries
          /\ backups' = res.backups
          /\ backup_store' = res.store
          /\ records' = res.records
          /\ futures' = [futures EXCEPT ![i].state = "done",
                                        ![i].result = res.result]
    /\ UNCHANGED <<now, fs, inbox, recent_events, hash_cache, last_backup_time,
                   nev, lifeVars, notifier, journal>>

\* the tail of on_created / on_modified on the Futures: submit the
\* persistence task, then the rate-limited backup of the monitored directory:
\* [futures, last_backup_time]
submit_change(F, lbt, type, path, current_hash, current_time) ==
    LET sb == should_backup(lbt, path, current_time)
        monitored_dir == monitored_dir_of(sup.current_directories, path)
        fn == IF type = "created" THEN "addition" ELSE "modification"
    IN [futures |-> Append(F, Future(fn, path, current_hash, 0, current_time))
                      \o (IF sb.result /\ monitored_dir # NoDir
                            THEN <<Future("backup", monitored_dir, None, 0,
                                          current_time)>>
                            ELSE << >>),
        last_backup_time |-> sb.last_backup_time]

\* the notification thread calls on_created / on_modified / on_deleted for
\* the next notification and runs it up to its return or up to
\* future.result(timeout=10.0) of _calculate_hash_async
dispatch ==
    /\ notifier.pc = "idle"
    /\ inbox # << >>
    /\ LET e == Head(inbox)
           sp == should_process(recent_events, e.type, e.path, now)
           cached_hash == get_cached_hash(hash_cache, e.path, now)
           sc == submit_change(futures, last_backup_time, e.type, e.path,
                               cached_hash, now)
       IN IF ~is_valid_event(sup.current_directories, e.path)
            THEN UNCHANGED <<recent_events, futures, notifier, journal,
                             last_backup_time>>
          ELSE IF ~sp.result
            THEN /\ recent_events' = sp.recent_events
                 /\ UNCHANGED <<futures, notifier, journal, last_backup_time>>
          ELSE /\ recent_events' = sp.recent_events
               /\ journal' = Append(journal, e)
               /\ IF e.type = "deleted"
                    THEN /\ futures' = Append(futures,
                                Future("deletion", e.path, None, 0, now))
                         /\ UNCHANGED <<notifier, last_backup_time>>
                  ELSE IF cached_hash # None
                    THEN /\ futures' = sc.futures
                         /\ last_backup_time' = sc.last_backup_time
                         /\ UNCHANGED notifier
                  ELSE /\ futures' = Append(futures,
                                Future("hash", e.path, None, 0, now))
                       /\ notifier' = [pc |-> "wait_hash", type |-> e.type,
                                       path |-> e.path,
                                       future |-> Len(futures) + 1]
                       /\ UNCHANGED last_backup_time
    /\ inbox' = Tail(inbox)
    /\ UNCHANGED <<now, fs, hash_cache, dirs, entries, backups, nev, lifeVars,
                   backup_store, records>>

\* future.result(timeout=10.0) returns the digest: it is cached, the
\* persistence task and the backup are submitted, the callback returns
hash_result ==
    /\ notifier.pc = "wait_hash"
    /\ futures[notifier.future].state = "done"
    /\ LET current_hash == futures[notifier.future].result
           sc == submit_change([futures EXCEPT ![notifier.future].waited = "result"],
                               last_backup_time, notifier.type, notifier.path,
                               current_hash, now)
       IN /\ hash_cache' = DictPut(hash_cache, notifier.path,
                                   [time |-> now, hash |-> current_hash])
          /\ futures' = sc.futures
          /\ last_backup_time' = sc.last_backup_time
    /\ notifier' = IdleNotifier
    /\ UNCHANGED <<now, fs, inbox, recent_events, dirs, entries, backups, nev,
                   lifeVars, backup_store, records, journal>>

\* future.result(timeout=10.0) raises TimeoutError after the 10 s: the
\* callback goes on with "TIMEOUT_ERROR"
hash_timed_out ==
    /\ notifier.pc = "wait_hash"
    /\ futures[notifier.future].state # "done"
    /\ now + hash_timeout <= MaxPoolTime
    /\ now' = now + hash_timeout
    /\ LET sc == submit_change([futures EXCEPT ![notifier.future].waited = "timeout"],
                               last_backup_time, notifier.type, notifier.path,
                               "TIMEOUT_ERROR", now + hash_timeout)
       IN /\ futures' = sc.futures
          /\ last_backup_time' = sc.last_backup_time
    /\ notifier' = IdleNotifier
    /\ UNCHANGED <<fs, inbox, recent_events, hash_cache, dirs, entries, backups,
                   nev, lifeVars, backup_store, records, journal>>

\* the loops of monitor_changes over current_directories: raise
\* FileNotFoundError at the first directory that is not on disk, submit the
\* baseline of every directory before it
submit_baselines(t) ==
    /\ callers[t].pc = "baselines"
    /\ LET ds == sup.current_directories
           m == FirstMissing(ds)
           sub == IF m = 0 THEN ds ELSE SubSeq(ds, 1, m - 1)
           c == [callers[t] EXCEPT !.iterated = ds, !.submitted = sub,
                    !.futures = [k \in 1..Len(sub) |-> Len(futures) + k]]
       IN /\ futures' = futures \o [k \in 1..Len(sub) |->
                                       Future("baseline", sub[k], None, 0, now)]
          /\ callers' = [callers EXCEPT ![t] =
                            IF m = 0 THEN [c EXCEPT !.pc = "await"]
                            ELSE Fail(c)]
    /\ UNCHANGED <<now, fs, inbox, recent_events, hash_cache, last_backup_time,
                   dirs, entries, backups, nev, sup, observers, backup_store,
                   records, notifier, journal>>

\* the start path after a wait for a baseline future has ended
Waited(c) ==
    [c EXCEPT !.futures = Tail(@),
              !.pc = IF Len(c.futures) = 1 THEN "schedule" ELSE "await"]

\* for future in futures: future.result(timeout=30.0) returns
await_baseline(t) ==
    /\ callers[t].pc = "await"
    /\ futures[Head(callers[t].futures)].state = "done"
    /\ futures' = [futures EXCEPT ![Head(callers[t].futures)].waited = "result"]
    /\ callers' = [callers EXCEPT ![t] = Waited(@)]
    /\ UNCHANGED <<now, fs, inbox, recent_events, hash_cache, last_backup_time,
                   dirs, entries, backups, nev, sup, observers, backup_store,
                   records, notifier, journal>>

\* future.result(timeout=30.0) raises TimeoutError after the 30 s: logged,
\* the loop goes on with the next future
baseline_timed_out(t) ==
    /\ callers[t].pc = "await"
    /\ futures[Head(callers[t].futures)].state # "done"
    /\ now + baseline_timeout <= MaxPoolTime
    /\ now' = now + baseline_timeout
    /\ futures' = [futures EXCEPT ![Head(callers[t].futures)].waited = "timeout"]
    /\ callers' = [callers EXCEPT ![t] = Waited(@)]
    /\ UNCHANGED <<fs, inbox, recent_events, hash_cache, last_backup_time,
                   dirs, entries, backups, nev, sup, observers, backup_store,
                   records, notifier, journal>>

\* the file a watched root's notifications are about
PoolFiles == {FileA}

\* some observer that has not ended watches a directory above the file
Watched(f) ==
    \E o \in 1..Len(observers) :
        /\ is_alive(o)
        /\ \E w \in observers[o].watches : startswith(f, w \o <<Sep>>)

\* a watched file is created or overwritten
pool_write(f, c) ==
    /\ Watched(f)
    /\ fs' = [fs EXCEPT ![f] = c]
    /\ Notify(IF fs[f] = 0 THEN "created" ELSE "modified", f)
    /\ nev' = nev + 1
    /\ UNCHANGED <<now, recent_events, hash_cache, last_backup_time, dirs,
                   entries, backups, lifeVars, backup_store, records, poolVars>>

\* a watched file is removed
pool_delete(f) ==
    /\ Watched(f)
    /\ fs[f] # 0
    /\ fs' = [fs EXCEPT ![f] = 0]
    /\ Notify("deleted", f)
    /\ nev' = nev + 1
    /\ UNCHANGED <<now, recent_events, hash_cache, last_backup_time, dirs,
                   entries, backups, lifeVars, backup_store, records, poolVars>>

\* the start requests: the directories and excluded_files
StartRequests ==
    {[directories |-> <<RootD>>, excluded_files |-> {}],
     [directories |-> <<RootD, RootE>>, excluded_files |-> {}],
     [directories |-> <<RootE, RootD>>, excluded_files |-> {RootE}]}

\* the one client of the pool specifications
Starter == 1

\* nothing is monitored yet; the file of the notifications is on disk or not
InitPool ==
    /\ InitBackup
    /\ fs[FileSA] = 0

NextStart ==
    \/ /\ observers = << >>
       /\ \E r \in StartRequests :
             monitor_changes(Starter, r.directories, r.excluded_files)
       /\ LifeFrame
    \/ stop_set_flag(Starter) /\ LifeFrame
    \/ stop_observer(Starter) /\ LifeFrame
    \/ reset_state(Starter) /\ LifeFrame
    \/ create_observer(Starter) /\ LifeFrame
    \/ submit_baselines(Starter) /\ PoolFrame
    \/ await_baseline(Starter) /\ PoolFrame
    \/ baseline_timed_out(Starter) /\ PoolFrame
    \/ schedule_all(Starter) /\ LifeFrame
    \/ start_observer(Starter) /\ LifeFrame
    \/ \E i \in 1..Len(futures) : worker_start(i) /\ PoolFrame
    \/ \E i \in 1..Len(futures) : run_task(i) /\ PoolFrame
    \/ dispatch /\ PoolFrame
    \/ hash_result /\ PoolFrame
    \/ hash_timed_out /\ PoolFrame
    \/ /\ nev < MaxPoolEvents
       /\ \E f \in PoolFiles, c \in Contents : pool_write(f, c) /\ PoolFrame
    \/ /\ nev < MaxPoolEvents
       /\ \E f \in PoolFiles : pool_delete(f) /\ PoolFrame

SpecStart == InitPool /\ [][NextStart]_vars

----------------------------------------------------------------------------
(* The notification thread and the order of the persistence tasks *)

\* C21: the notification thread never waits for a hash or backup
\* computation: handling an event only dispatches work to the pool and
\* returns.
C21_NotifierNeverWaits == notifier.pc # "wait_hash"

\* nothing is queued, running or being handled
Settled ==
    /\ inbox = << >>
    /\ notifier = IdleNotifier
    /\ \A i \in 1..Len(futures) : futures[i].state = "done"

\* every baseline had finished when the start path stopped waiting for it
BaselinesAwaited ==
    \A i \in 1..Len(futures) :
        futures[i].fn = "baseline" => futures[i].waited = "result"

\* the positions of the journal that are about file f
EventsOf(f) == {k \in 1..Len(journal) : journal[k].path = f}

\* the last event accepted for file f
LastEvent(f) == journal[CHOOSE k \in EventsOf(f) : \A j \in EventsOf(f) : j <= k]

\* C27: once all tasks have finished, the stored status of a path
\* corresponds to the last event received for it: after a deletion every row
\* of the path is 'deleted', after a creation or modification some row of
\* the path is not (in sessions whose baselines were complete before the
\* first event).
C27_LastEventWins ==
    (Settled /\ BaselinesAwaited)
    => \A f \in PoolFiles :
          EventsOf(f) # {}
          => IF LastEvent(f).type = "deleted"
               THEN \A r \in EntriesFor(entries, f) : r.status = "deleted"
               ELSE \E r \in EntriesFor(entries, f) : r.status # "deleted"

----------------------------------------------------------------------------
(* Start: baselines, exclusion list, subscriptions *)

\* the baseline futures of directory d
BaselineOf(d) ==
    {i \in 1..Len(futures) : futures[i].fn = "baseline" /\ futures[i].path = d}

\* the wait of the start path for future i has ended: by the result of the
\* finished task, or by the timeout 30 s or more after the submission
WaitEnded(i) ==
    \/ futures[i].waited = "result" /\ futures[i].state = "done"
    \/ futures[i].waited = "timeout" /\ now >= futures[i].at + baseline_timeout

\* C23: during start a root is subscribed only after its baseline task has
\* completed or its wait has timed out, a root of the exclusion list is
\* never subscribed, and whatever the baselines' outcomes the start does not
\* fail and ends with every other root subscribed on a running observer.
C23_SubscribedAfterBaseline ==
    /\ \A o \in 1..Len(observers) :
          \A d \in observers[o].watches :
             /\ d \notin callers[Starter].excluded
             /\ \E i \in BaselineOf(d) : WaitEnded(i)
    /\ callers[Starter].cont # "raise"
    /\ callers[Starter].outcome = "started"
       => /\ sup.observer # 0
          /\ observers[sup.observer].state = "alive"
          /\ observers[sup.observer].watches =
                Range(callers[Starter].req) \ callers[Starter].excluded

\* a start has returned with one root subscribed after its baseline, the
\* baseline of the other, excluded root having timed out
C23_Witness ==
    /\ callers[Starter].outcome = "started"
    /\ callers[Starter].excluded = {RootE}
    /\ observers[sup.observer].watches = {RootD}
    /\ \E i \in BaselineOf(RootE) : futures[i].waited = "timeout"
    /\ \E i \in BaselineOf(RootD) : futures[i].waited = "result"

----------------------------------------------------------------------------
(* Progress of the pool.  The workers are threads of their own: an idle     *)
(* worker takes the next queued item, a function that was called returns,   *)
(* and a thread blocked in future.result goes on once the result is set.    *)
(* The weak fairness of run_task is written out, with Runnable for what     *)
(* ENABLED <<run_task(i)>>_vars amounts to (a task that returns always      *)
(* changes its Future).                                                     *)

SpecStartFair ==
    /\ SpecStart
    /\ WF_vars(\E i \in 1..Len(futures) : worker_start(i) /\ PoolFrame)
    /\ \/ []<>(~\E i \in 1..Len(futures) : Runnable(i))
       \/ []<><<\E i \in 1..Len(futures) : run_task(i) /\ PoolFrame>>_vars
    /\ WF_vars(hash_result /\ PoolFrame)
    /\ WF_vars(await_baseline(Starter) /\ PoolFrame)

\* C30: no task running on a worker submits to the pool and waits, so the
\* bounded pool does not deadlock on itself: every submitted task is
\* eventually started, and every wait of the start path or of the
\* notification thread on a pool future ends.
C30_PoolMakesProgress ==
    /\ [](\A i \in 1..Len(futures) : futures[i].parent = 0)
    /\ []<>(Queued = {})
    /\ []<>(notifier.pc # "wait_hash")
    /\ []<>(callers[Starter].pc # "await")

\* all workers are busy, and the notification thread waits for a hash task
\* that is queued behind them
C30_Witness ==
    /\ Cardinality(Busy) = max_workers
    /\ notifier.pc = "wait_hash"
    /\ notifier.future \in Queued

----------------------------------------------------------------------------
(* Sessions one after the other: a client starts, stops and starts again,   *)
(* with the pool, the notification thread and the observer threads of the   *)
(* earlier sessions going on.  An observer that was stopped delivers the    *)
(* notifications it still holds until its thread has ended.  The           *)
(* observer_thread of a session sleeps here; its cleanup is in SpecLife.   *)

MaxSessionEvents == 1

SessionRequests == {<<RootDD>>, <<RootD>>}

SessionFiles == {FileA, FileDA}

InitSession ==
    /\ now = 0
    /\ fs = [f \in AllFiles |-> IF f = FileSA THEN 0 ELSE 1]
    /\ inbox = << >>
    /\ recent_events = EmptyDict
    /\ hash_cache = EmptyDict
    /\ last_backup_time = EmptyDict
    /\ pool = << >>
    /\ dirs = {}
    /\ entries = {}
    /\ backups = << >>
    /\ nev = 0
    /\ last = NoStep
    /\ dispatched = << >>
    /\ awaiting = {}
    /\ sup = IdleSup
    /\ observers = << >>
    /\ callers = [t \in LifeThreads |-> IF t \in Clients THEN IdleCaller ELSE Unborn]
    /\ calls = [t \in Threads |-> Idle]
    /\ returned = << >>
    /\ backup_store = EmptyDict
    /\ records = << >>
    /\ restore_target = EmptyDict
    /\ restorers = [r \in Restorers |-> IdleRestorer]
    /\ futures = << >>
    /\ notifier = IdleNotifier
    /\ journal = << >>

NextSession ==
    \/ \E ds \in SessionRequests : monitor_changes(Starter, ds, {}) /\ LifeFrame
    \/ stop_monitoring(Starter) /\ LifeFrame
    \/ stop_set_flag(Starter) /\ LifeFrame
    \/ stop_observer(Starter) /\ LifeFrame
    \/ stop_clear(Starter) /\ LifeFrame
    \/ reset_state(Starter) /\ LifeFrame
    \/ create_observer(Starter) /\ LifeFrame
    \/ submit_baselines(Starter) /\ PoolFrame
    \/ await_baseline(Starter) /\ PoolFrame
    \/ baseline_timed_out(Starter) /\ PoolFrame
    \/ schedule_all(Starter) /\ LifeFrame
    \/ start_observer(Starter) /\ LifeFrame
    \/ \E o \in 1..Len(observers) : observer_exit(o) /\ LifeFrame
    \/ \E i \in 1..Len(futures) : worker_start(i) /\ PoolFrame
    \/ \E i \in 1..Len(futures) : run_task(i) /\ PoolFrame
    \/ dispatch /\ PoolFrame
    \/ hash_result /\ PoolFrame
    \/ hash_timed_out /\ PoolFrame
    \/ /\ nev < MaxSessionEvents
       /\ \E f \in SessionFiles, c \in Contents : pool_write(f, c) /\ PoolFrame
    \/ /\ nev < MaxSessionEvents
       /\ \E f \in SessionFiles : pool_delete(f) /\ PoolFrame

SpecSession == InitSession /\ [][NextSession]_vars


----------------------------------------------------------------------------
(* C24: tasks of a stopped session *)

\* stop_monitoring has returned to its caller and no session was started since
Stopped ==
    /\ callers[Starter].pc = "idle"
    /\ callers[Starter].outcome = "stopped"

\* C24: once stop has returned, no Entry is written or changed and no backup
\* is made for the stopped session: the tasks of the session that are still
\* queued or running in the pool have no effect any more.
C24_StoppedSessionWritesNothing ==
    [][Stopped => /\ entries' = entries
                  /\ backups' = backups
                  /\ backup_store' = backup_store
                  /\ records' = records]_vars

----------------------------------------------------------------------------
(* C25: events outside the monitored roots *)

\* the path is one of the roots or lies below one
Inside(path, roots) ==
    \E k \in 1..Len(roots) :
        \/ path = roots[k]
        \/ startswith(path, roots[k] \o <<Sep>>)

\* C25: a notification whose path is not inside any currently monitored root
\* is rejected by the callback: no task is submitted for it (no hash, no Entry
\* write, no backup) and the notification thread does not wait for one.
C25_OutsideEventsRejected ==
    [][(/\ notifier.pc = "idle"
        /\ inbox # << >>
        /\ inbox' = Tail(inbox)
        /\ ~Inside(Head(inbox).path, sup.current_directories))
       => /\ futures' = futures
          /\ notifier' = notifier
          /\ journal' = journal]_vars

====
